---- MODULE Spec2Model ----
(***************************************************************************)
(* Model of the post import scripts (scripts/posts): the Medium and Dev.to *)
(* feed adapters, the BlogPost record, and the interactive post writer.    *)
(* Python strings are sequences of one-character strings, so that split,   *)
(* strip, lower and suffix are computed as the code computes them.         *)
(***************************************************************************)
EXTENDS Integers, Sequences, FiniteSets, TLC

\* ------------------------------------------------------------ bounds
\* The longest feed, and the longest list handed to process_posts on its own.
MaxFeed == 2
MaxPosts == 3
\* The longest title handed to slugify.
MaxTitle == 3
\* The most nodes in the HTML handed to normalize_headings.
MaxNodes == 3

\* ------------------------------------------------------------ Python values
\* Optional[...]: None, or a value.
None == [has |-> FALSE, v |-> <<>>]
Some(x) == [has |-> TRUE, v |-> x]
\* Truthiness of an optional string or list: None and "" / [] are falsy.
Truthy(o) == o.has /\ o.v # <<>>

\* ------------------------------------------------------------ str methods
UpperChars == <<"A", "B", "C", "D", "E", "F", "G", "H", "I", "J", "K", "L", "M", "N", "O", "P", "Q", "R", "S", "T", "U", "V", "W", "X", "Y", "Z">>
LowerChars == <<"a", "b", "c", "d", "e", "f", "g", "h", "i", "j", "k", "l", "m", "n", "o", "p", "q", "r", "s", "t", "u", "v", "w", "x", "y", "z">>
DigitChars == <<"0", "1", "2", "3", "4", "5", "6", "7", "8", "9">>
Range(s) == {s[i] : i \in 1..Len(s)}

\* \s of the re module
IsSpace(c) == c \in {" ", "\t", "\n"}
\* \w of the re module
IsWord(c) == c \in Range(UpperChars) \cup Range(LowerChars) \cup Range(DigitChars) \cup {"_"}

LowerChar(c) ==
    IF c \in Range(UpperChars)
    THEN LowerChars[CHOOSE i \in 1..Len(UpperChars) : UpperChars[i] = c]
    ELSE c
\* str.lower
Lower(s) == [i \in 1..Len(s) |-> LowerChar(s[i])]

RECURSIVE LStripSpace(_)
LStripSpace(s) ==
    IF s # <<>> /\ IsSpace(Head(s)) THEN LStripSpace(Tail(s)) ELSE s
RECURSIVE RStripSpace(_)
RStripSpace(s) ==
    IF s # <<>> /\ IsSpace(s[Len(s)]) THEN RStripSpace(SubSeq(s, 1, Len(s) - 1)) ELSE s
\* str.strip()
Strip(s) == RStripSpace(LStripSpace(s))

\* str.lstrip(c)
RECURSIVE LStripChar(_, _)
LStripChar(s, c) ==
    IF s # <<>> /\ Head(s) = c THEN LStripChar(Tail(s), c) ELSE s

\* str.split(sep) for a one-character separator: "a,,b" -> ["a", "", "b"], "" -> [""]
RECURSIVE Split(_, _)
Split(s, sep) ==
    IF \A i \in 1..Len(s) : s[i] # sep
    THEN <<s>>
    ELSE LET k == CHOOSE i \in 1..Len(s) : s[i] = sep /\ \A j \in 1..(i - 1) : s[j] # sep
         IN  <<SubSeq(s, 1, k - 1)>> \o Split(SubSeq(s, k + 1, Len(s)), sep)

\* [x for x in xs if keep(x)]
RECURSIVE NonEmptyParts(_)
NonEmptyParts(xs) ==
    IF xs = <<>> THEN <<>>
    ELSE IF Head(xs) # <<>> THEN <<Head(xs)>> \o NonEmptyParts(Tail(xs))
    ELSE NonEmptyParts(Tail(xs))

\* re.search of a literal pattern
Contains(s, sub) ==
    \E i \in 1..(Len(s) - Len(sub) + 1) : SubSeq(s, i, i + Len(sub) - 1) = sub

RECURSIVE Concat(_)
Concat(xs) == IF xs = <<>> THEN <<>> ELSE Head(xs) \o Concat(Tail(xs))

\* ------------------------------------------------------------ cli.py: slugify
\* re.sub(r"[^\w\s-]", "", title)
RECURSIVE DropPunctuation(_)
DropPunctuation(s) ==
    IF s = <<>> THEN <<>>
    ELSE IF IsWord(Head(s)) \/ IsSpace(Head(s)) \/ Head(s) = "-"
         THEN <<Head(s)>> \o DropPunctuation(Tail(s))
         ELSE DropPunctuation(Tail(s))

IsSeparator(c) == IsSpace(c) \/ c = "_" \/ c = "-"
\* re.sub(r"[\s_-]+", "-", s)
RECURSIVE CollapseSeparators(_)
CollapseSeparators(s) ==
    IF s = <<>> THEN <<>>
    ELSE IF IsSeparator(Head(s))
         THEN IF Len(s) > 1 /\ IsSeparator(s[2])
              THEN CollapseSeparators(Tail(s))
              ELSE <<"-">> \o CollapseSeparators(Tail(s))
         ELSE <<Head(s)>> \o CollapseSeparators(Tail(s))

slugify(title) ==
    LET normalized == DropPunctuation(title)
        collapsed == CollapseSeparators(Lower(Strip(normalized)))
    IN  IF collapsed # <<>> THEN collapsed ELSE <<"p", "o", "s", "t">>

\* ------------------------------------------------------------ cli.py: URLs
\* A URL is what urlsplit makes of it: its five components.
Url(scheme, netloc, path, query, fragment) ==
    [scheme |-> scheme, netloc |-> netloc, path |-> path, query |-> query, fragment |-> fragment]
\* urlunsplit
UrlString(u) ==
    (IF u.scheme # <<>> THEN u.scheme \o <<":", "/", "/">> ELSE <<>>) \o u.netloc \o u.path
    \o (IF u.query # <<>> THEN <<"?">> \o u.query ELSE <<>>)
    \o (IF u.fragment # <<>> THEN <<"#">> \o u.fragment ELSE <<>>)
NoUrl == [has |-> FALSE, v |-> Url(<<>>, <<>>, <<>>, <<>>, <<>>)]
\* truthiness of an optional URL string
TruthyUrl(o) == o.has /\ UrlString(o.v) # <<>>

clean_url(url) == Url(url.scheme, url.netloc, url.path, <<>>, <<>>)

\* ------------------------------------------------------------ cli.py: dates
\* A feed date string: a wall-clock hour count and a zone ("none" when the string
\* names no zone, else the zone's offset in hours).
DateStr(local, zone) == [local |-> local, zone |-> zone]
NoDate == [has |-> FALSE, v |-> DateStr(0, "none")]
ZoneOffset(zone) == CASE zone = "none" -> 0 [] zone = "utc" -> 0 [] zone = "+2" -> 2
\* parsedate_to_datetime(value), made UTC when naive, then astimezone(utc)
ToUtc(d) == d.local - ZoneOffset(d.zone)

\* parse_publish_date: the UTC date, or the ValueError of a missing date
parse_publish_date(raw_value, fallback) ==
    LET value == IF raw_value.has THEN raw_value ELSE fallback
    IN  IF ~value.has
        THEN [ok |-> FALSE, date |-> 0]
        ELSE [ok |-> TRUE, date |-> ToUtc(value.v)]

\* ------------------------------------------------------------ blog_post.py
\* The fields of the BlogPost dataclass; the first five have no default.
BlogPostFields ==
    {"title", "slug", "date", "original_url", "markdown_body", "tags", "image_url", "image_alt"}
BlogPostRequired == {"title", "slug", "date", "original_url", "markdown_body"}

\* BlogPost(**kw): the generated __init__ takes the declared fields only and
\* validates nothing about their values.
BlogPostDefaults == [tags |-> <<>>, image_url |-> NoUrl, image_alt |-> <<>>]
BlogPost(kw) ==
    IF DOMAIN kw \subseteq BlogPostFields /\ BlogPostRequired \subseteq DOMAIN kw
    THEN [ok |-> TRUE, exc |-> "",
          post |-> <<[f \in BlogPostFields |-> IF f \in DOMAIN kw THEN kw[f] ELSE BlogPostDefaults[f]]>>]
    ELSE [ok |-> FALSE, exc |-> "TypeError", post |-> <<>>]

\* getattr(post, name) succeeds
HasAttr(post, name) == name \in DOMAIN post

\* ------------------------------------------------------------ feed entries
\* A feedparser entry: every key the adapters read. tags holds the term of each
\* tag (None for a tag without one); content and summary hold the parsed HTML (a
\* sequence of nodes, empty for an empty string).
Entry(title, published, updated, link, url, content, summary, tags, thumb) ==
    [title |-> title, published |-> published, updated |-> updated, link |-> link,
     url |-> url, content |-> content, summary |-> summary, tags |-> tags,
     media_thumbnail |-> thumb]

\* An HTML node: a paragraph (text, and for an "Originally published at" line
\* its anchor href and the date its text names), a heading (level, text) or an
\* image (src, alt).
Para(text) == [tag |-> "p", level |-> 0, text |-> text, src |-> NoUrl, alt |-> <<>>, href |-> NoUrl, odate |-> NoDate]
OrigPara(text, href, odate) == [tag |-> "p", level |-> 0, text |-> text, src |-> NoUrl, alt |-> <<>>, href |-> href, odate |-> odate]
Heading(level, text) == [tag |-> "h", level |-> level, text |-> text, src |-> NoUrl, alt |-> <<>>, href |-> NoUrl, odate |-> NoDate]
Img(src, alt) == [tag |-> "img", level |-> 0, text |-> <<>>, src |-> src, alt |-> alt, href |-> NoUrl, odate |-> NoDate]

\* ------------------------------------------------------------ extract_tags
\* extract_tags(entry), the same function in fetch_medium.py and fetch_devto.py
RECURSIVE ExtractTagsFrom(_, _)
ExtractTagsFrom(terms, tags) ==
    IF terms = <<>> THEN tags
    ELSE LET term == Head(terms)
             normalized == Strip(term.v)
         IN  IF ~Truthy(term) THEN ExtractTagsFrom(Tail(terms), tags)
             ELSE IF normalized = <<>> \/ normalized \in Range(tags)
                  THEN ExtractTagsFrom(Tail(terms), tags)
                  ELSE ExtractTagsFrom(Tail(terms), Append(tags, normalized))
extract_tags(entry) == ExtractTagsFrom(entry.tags, <<>>)

\* ------------------------------------------------------------ fetch_medium.py
ORIGINAL_LINE_PATTERN == <<"o", "r", "i", "g", "i", "n", "a", "l", "l", "y", " ", "p", "u", "b", "l", "i", "s", "h", "e", "d", " ", "a", "t">>
TRACKING_IMAGE_PATTERNS == {<<"m", "e", "d", "i", "u", "m", ".", "c", "o", "m", "/", "_", "/", "s", "t", "a", "t">>}

is_tracking_image(url) ==
    LET normalized == Lower(UrlString(url))
    IN  \E pattern \in TRACKING_IMAGE_PATTERNS : Contains(normalized, pattern)

RemoveAt(seq, k) == SubSeq(seq, 1, k - 1) \o SubSeq(seq, k + 1, Len(seq))

\* extract_original_metadata: the first paragraph whose text matches carries the
\* original URL and date, and is removed from the body.
IsOriginalLine(node) ==
    /\ node.tag = "p"
    /\ Strip(node.text) # <<>>
    /\ Contains(Lower(Strip(node.text)), ORIGINAL_LINE_PATTERN)
extract_original_metadata(soup) ==
    IF \E i \in 1..Len(soup) : IsOriginalLine(soup[i])
    THEN LET k == CHOOSE i \in 1..Len(soup) :
                     IsOriginalLine(soup[i]) /\ \A j \in 1..(i - 1) : ~IsOriginalLine(soup[j])
             element == soup[k]
         IN  [url |-> IF TruthyUrl(element.href) THEN Some(clean_url(element.href.v)) ELSE NoUrl,
              date |-> IF element.odate.has THEN [has |-> TRUE, v |-> ToUtc(element.odate.v)]
                       ELSE [has |-> FALSE, v |-> 0],
              soup |-> RemoveAt(soup, k)]
    ELSE [url |-> NoUrl, date |-> [has |-> FALSE, v |-> 0], soup |-> soup]

\* pop_first_image: images are removed up to and including the first one that
\* has a src and is no tracking pixel; that one is returned.
RECURSIVE pop_first_image(_)
pop_first_image(soup) ==
    IF soup = <<>> THEN [src |-> NoUrl, alt |-> <<>>, soup |-> <<>>]
    ELSE LET node == Head(soup)
             rest == pop_first_image(Tail(soup))
         IN  IF node.tag # "img"
             THEN [rest EXCEPT !.soup = <<node>> \o rest.soup]
             ELSE IF ~TruthyUrl(node.src) \/ is_tracking_image(node.src.v)
                  THEN rest
                  ELSE [src |-> node.src, alt |-> node.alt, soup |-> Tail(soup)]

RECURSIVE remove_tracking_images(_)
remove_tracking_images(soup) ==
    IF soup = <<>> THEN <<>>
    ELSE LET node == Head(soup)
         IN  IF node.tag = "img" /\ (~TruthyUrl(node.src) \/ is_tracking_image(node.src.v))
             THEN remove_tracking_images(Tail(soup))
             ELSE <<node>> \o remove_tracking_images(Tail(soup))

HeadingLevels(soup) == {soup[i].level : i \in {j \in 1..Len(soup) : soup[j].tag = "h"}}
Min(S) == CHOOSE x \in S : \A y \in S : x <= y
\* The new level left unclamped.
NewLevelUnclamped(level, offset) == level + offset

\* normalize_headings: a heading's level after the shift, kept within 2..6
NewLevel(level, offset) ==
    IF level + offset < 2 THEN 2
    ELSE IF level + offset > 6 THEN 6
    ELSE level + offset
normalize_headings(soup) ==
    IF HeadingLevels(soup) = {} THEN soup
    ELSE LET offset == 2 - Min(HeadingLevels(soup))
         IN  [i \in 1..Len(soup) |->
                IF soup[i].tag = "h"
                THEN [soup[i] EXCEPT !.level = NewLevel(soup[i].level, offset)]
                ELSE soup[i]]

\* markdownify(str(soup), heading_style="ATX"): one block per node
Hashes(n) == [i \in 1..n |-> "#"]
NodeMarkdown(node) ==
    CASE node.tag = "p" -> node.text \o <<"\n", "\n">>
      [] node.tag = "h" -> Hashes(node.level) \o <<" ">> \o node.text \o <<"\n", "\n">>
      [] node.tag = "img" -> <<"!", "[">> \o node.alt \o <<"]", "(">> \o UrlString(node.src.v) \o <<")">>
html_to_markdown(soup) == Concat([i \in 1..Len(soup) |-> NodeMarkdown(soup[i])])

\* The result of parsing one entry: the post, or the exception raised and its
\* message; call holds the arguments handed to BlogPost when the entry got that far.
Raised(exc, msg) == [ok |-> FALSE, exc |-> exc, msg |-> msg, call |-> <<>>, post |-> <<>>]
Constructed(kw) ==
    [ok |-> BlogPost(kw).ok, exc |-> BlogPost(kw).exc,
     msg |-> IF BlogPost(kw).ok THEN "" ELSE "unexpected keyword argument",
     call |-> <<kw>>, post |-> BlogPost(kw).post]

parse_medium_entry(entry) ==
    LET title == entry.title.v
        published == parse_publish_date(entry.published, entry.updated)
        content_html == IF Truthy(entry.content) THEN entry.content
                        ELSE IF Truthy(entry.summary) THEN entry.summary
                        ELSE None
        meta == extract_original_metadata(content_html.v)
        popped == pop_first_image(meta.soup)
        soup == normalize_headings(remove_tracking_images(popped.soup))
        markdown_body == Strip(html_to_markdown(soup))
        original_url == IF TruthyUrl(meta.url) THEN meta.url ELSE entry.link
        kw == [title |-> title,
               slug |-> slugify(title),
               date |-> IF meta.date.has THEN meta.date.v ELSE published.date,
               original_url |-> clean_url(original_url.v),
               markdown_body |-> markdown_body,
               tags |-> extract_tags(entry),
               image_url |-> popped.src,
               image_alt |-> popped.alt]
    IN  IF ~published.ok THEN Raised("ValueError", "missing a publish date")
        ELSE IF ~Truthy(content_html) THEN Raised("ValueError", "no HTML content")
        ELSE IF ~TruthyUrl(original_url) THEN Raised("ValueError", "missing the original URL")
        ELSE Constructed(kw)

\* ------------------------------------------------------------ cli.py: writer
WEB_IMAGE_PREFIX == <<"i", "m", "a", "g", "e", "s", "/", "w", "r", "i", "t", "i", "n", "g">>
ImageSuffixes == {<<".", "j", "p", "g">>, <<".", "j", "p", "e", "g">>, <<".", "p", "n", "g">>, <<".", "g", "i", "f">>, <<".", "w", "e", "b", "p">>}

\* pathlib.Path(path).name: the last non-empty component
PathName(path) ==
    LET parts == NonEmptyParts(Split(path, "/"))
    IN  IF parts = <<>> THEN <<>> ELSE parts[Len(parts)]
\* pathlib.Path(path).suffix: from the last dot of the name, unless the dot is
\* the name's first or last character
PathSuffix(path) ==
    LET name == PathName(path)
        dots == {i \in 1..Len(name) : name[i] = "."}
        last == CHOOSE i \in dots : \A j \in dots : j <= i
    IN  IF dots = {} THEN <<>>
        ELSE IF last = 1 \/ last = Len(name) THEN <<>>
        ELSE SubSeq(name, last, Len(name))

determine_image_filename(slug, image_url) ==
    LET suffix == Lower(PathSuffix(image_url.path))
    IN  slug \o (IF suffix \in ImageSuffixes THEN suffix ELSE <<".", "j", "p", "g">>)

\* build_front_matter: [ok, exc, front]. Reading an attribute the post does not
\* have raises AttributeError. front lists the fields written; an absent key is None.
build_front_matter(post, image_web_path) ==
    IF ~HasAttr(post, "series_title") \/ ~HasAttr(post, "series_order")
    THEN [ok |-> FALSE, exc |-> "AttributeError", front |-> <<>>]
    ELSE [ok |-> TRUE, exc |-> "",
          front |-> <<[title |-> post.title,
                       date |-> post.date,
                       draft |-> FALSE,
                       type |-> "posts",
                       canonical_url |-> UrlString(post.original_url),
                       image |-> image_web_path,
                       imageAlt |-> IF Truthy(image_web_path) THEN Some(post.image_alt) ELSE None,
                       tags |-> IF post.tags # <<>> THEN Some(post.tags) ELSE None,
                       series_title |-> IF Truthy(post.series_title) THEN post.series_title ELSE None,
                       series_order |-> IF post.series_order.has /\ post.series_order.v # 0
                                        THEN post.series_order ELSE [has |-> FALSE, v |-> 0]]>>]

\* A directory: file name -> file content.
EmptyDir == [n \in {} |-> <<>>]
WriteFile(dir, name, data) ==
    [n \in (DOMAIN dir) \cup {name} |-> IF n = name THEN data ELSE dir[n]]

PostFileName(post) == post.slug \o <<".", "m", "d">>

\* download_image with the destination opened before the response status is
\* checked: a failed download leaves an empty file behind.
download_image_OpenBeforeStatus(url, name, images, download) ==
    IF download = "ok"
    THEN [ok |-> TRUE, images |-> WriteFile(images, name, UrlString(url))]
    ELSE [ok |-> FALSE, images |-> WriteFile(images, name, <<>>)]

\* download_image under the outcome of requests.get + raise_for_status: the
\* response body goes to the destination, or the HTTP error is raised before
\* the destination is opened. A file's content is named by the URL it came from.
download_image(url, name, images, download) ==
    IF download = "ok"
    THEN [ok |-> TRUE, images |-> WriteFile(images, name, UrlString(url))]
    ELSE [ok |-> FALSE, images |-> images]

\* write_post under the outcomes of its two I/O calls: download is the outcome
\* of requests.get + raise_for_status for the image, disk that of write_text.
\* [ok, exc, images, contents]: the exception raised, and the two directories
\* afterwards.
write_post(post, images, contents, download, disk) ==
    LET has_image == TruthyUrl(post.image_url)
        image_filename == determine_image_filename(post.slug, post.image_url.v)
        downloaded == IF has_image
                      THEN download_image(post.image_url.v, image_filename, images, download)
                      ELSE [ok |-> TRUE, images |-> images]
        images1 == downloaded.images
        image_web_path == IF has_image
                          THEN Some(WEB_IMAGE_PREFIX \o <<"/">> \o image_filename)
                          ELSE None
        built == build_front_matter(post, image_web_path)
    IN  IF ~downloaded.ok
        THEN [ok |-> FALSE, exc |-> "HTTPError", images |-> images1, contents |-> contents]
        ELSE IF ~built.ok
        THEN [ok |-> FALSE, exc |-> built.exc, images |-> images1, contents |-> contents]
        ELSE IF disk # "ok"
        THEN [ok |-> FALSE, exc |-> "OSError", images |-> images1, contents |-> contents]
        ELSE [ok |-> TRUE, exc |-> "", images |-> images1,
              contents |-> WriteFile(contents, PostFileName(post),
                                     [front |-> built.front[1],
                                      body |-> post.markdown_body \o <<"\n">>])]

\* prompt_for_post: the operator's answers are read until one is a decision.
Decision(answer) ==
    LET decision == Lower(Strip(answer))
    IN  IF decision \in {<<"y", "e", "s">>, <<"y">>} THEN "yes"
        ELSE IF decision \in {<<"n", "o">>, <<"n">>} THEN "no"
        ELSE IF decision \in {<<"e", "x", "i", "t">>, <<"e">>} THEN "exit"
        ELSE "again"
RECURSIVE prompt_for_post(_)
prompt_for_post(answers) ==
    IF Decision(Head(answers)) # "again" THEN Decision(Head(answers))
    ELSE prompt_for_post(Tail(answers))

\* ------------------------------------------------------------ fetch_devto.py
DEVTO_SKIP_SLUGS == {<<"b", "u", "i", "l", "d", "i", "n", "g", "-", "a", "-", "c", "h", "e", "s", "s", "-", "g", "a", "m", "e", "-", "w", "i", "t", "h", "-", "p", "y", "t", "h", "o", "n", "-", "a", "n", "d", "-", "o", "p", "e", "n", "a", "i", "-", "3", "k", "n", "n">>}

PathParts(path) == NonEmptyParts(Split(path, "/"))

\* extract_devto_article_id: "username/slug" from the first two path segments
extract_devto_article_id(url) ==
    LET path == LStripChar(url.path, "/")
        parts == PathParts(path)
    IN  IF url.path = <<>> THEN None
        ELSE IF Len(parts) < 2 THEN None
        ELSE Some(parts[1] \o <<"/">> \o parts[2])

\* extract_devto_slug: the last path segment of the entry's link
extract_devto_slug(entry) ==
    LET link == entry.link
        path == link.v.path
        parts == PathParts(path)
    IN  IF ~TruthyUrl(link) THEN None
        ELSE IF path = <<>> THEN None
        ELSE IF Len(parts) < 2 THEN None
        ELSE Some(parts[Len(parts)])

\* The JSON of an article: body_markdown and title are None when the key is
\* absent; collection_id and id are 0 when absent or null. tag_list is a string
\* (kind "str", in str), a list (kind "list", in list) or anything else.
Article(body_markdown, cover_image, title, tag_list, collection_id, id) ==
    [body_markdown |-> body_markdown, cover_image |-> cover_image, title |-> title,
     tag_list |-> tag_list, collection_id |-> collection_id, id |-> id]
TagString(s) == [kind |-> "str", str |-> s, list |-> <<>>]
TagList(l) == [kind |-> "list", str |-> <<>>, list |-> l]
TagOther == [kind |-> "other", str |-> <<>>, list |-> <<>>]

\* [tag.strip() for tag in tag_list.split(",") if tag.strip()]
RECURSIVE TagsOfString(_)
TagsOfString(parts) ==
    IF parts = <<>> THEN <<>>
    ELSE IF Strip(Head(parts)) # <<>> THEN <<Strip(Head(parts))>> \o TagsOfString(Tail(parts))
    ELSE TagsOfString(Tail(parts))
\* [str(tag).strip() for tag in tag_list if tag]
RECURSIVE TagsOfList(_)
TagsOfList(items) ==
    IF items = <<>> THEN <<>>
    ELSE IF Truthy(Head(items)) THEN <<Strip(Head(items).v)>> \o TagsOfList(Tail(items))
    ELSE TagsOfList(Tail(items))
ApiTags(tag_list) ==
    CASE tag_list.kind = "str" -> TagsOfString(Split(tag_list.str, ","))
      [] tag_list.kind = "list" -> TagsOfList(tag_list.list)
      [] OTHER -> <<>>

\* fetch_series_title: page is the outcome of fetching the series page, None
\* when the request or the <title> match failed, else the title text.
fetch_series_title(page) ==
    IF page.has THEN Some(Strip(page.v)) ELSE None

\* calculate_series_order: listing is the outcome of the article-listing call,
\* None when it failed, else the articles [id, collection_id, published_at].
InsertByPublished(sorted, a) ==
    LET before == {i \in 1..Len(sorted) : sorted[i].published_at <= a.published_at}
        k == Cardinality(before)
    IN  SubSeq(sorted, 1, k) \o <<a>> \o SubSeq(sorted, k + 1, Len(sorted))
RECURSIVE SortByPublished(_)
SortByPublished(articles) ==
    IF articles = <<>> THEN <<>>
    ELSE InsertByPublished(SortByPublished(SubSeq(articles, 1, Len(articles) - 1)),
                           articles[Len(articles)])
InCollection(articles, collection_id) ==
    SelectSeq(articles, LAMBDA a : a.collection_id = collection_id)
calculate_series_order(listing, collection_id, article_id) ==
    LET series_articles == SortByPublished(InCollection(listing.v, collection_id))
        hits == {i \in 1..Len(series_articles) : series_articles[i].id = article_id}
    IN  IF ~listing.has \/ hits = {} THEN [has |-> FALSE, v |-> 0]
        ELSE [has |-> TRUE, v |-> Min(hits)]

\* fetch_devto_article: the outcome of the article-by-id call, ok = FALSE for a
\* network failure or a non-2xx status (raise_for_status).
HttpError == [ok |-> FALSE, data |-> Article(None, NoUrl, None, TagOther, 0, 0)]
HttpOk(data) == [ok |-> TRUE, data |-> data]

\* How far parse_devto_entry gets on an entry: to the article call, to the
\* series page call, to the article-listing call.
DevtoUrl(entry) == IF TruthyUrl(entry.link) THEN entry.link ELSE entry.url
ReachesArticle(entry) ==
    /\ parse_publish_date(entry.published, entry.updated).ok
    /\ TruthyUrl(DevtoUrl(entry))
    /\ Truthy(extract_devto_article_id(clean_url(DevtoUrl(entry).v)))
BodyOf(api_data) == Strip(IF api_data.body_markdown.has THEN api_data.body_markdown.v ELSE <<>>)
ReachesSeries(entry, api) ==
    ReachesArticle(entry) /\ api.ok /\ BodyOf(api.data) # <<>> /\ api.data.collection_id # 0
ReachesListing(entry, api) == ReachesSeries(entry, api) /\ api.data.id # 0

\* parse_devto_entry under the outcomes of its three HTTP calls
parse_devto_entry(entry, api, page, listing) ==
    LET title == entry.title.v
        published == parse_publish_date(entry.published, entry.updated)
        original_url == clean_url(DevtoUrl(entry).v)
        article_id == extract_devto_article_id(original_url)
        api_data == api.data
        markdown_body == BodyOf(api_data)
        use_thumb == ~TruthyUrl(api_data.cover_image) /\ TruthyUrl(entry.media_thumbnail)
        image_url == IF use_thumb THEN entry.media_thumbnail ELSE api_data.cover_image
        image_alt == IF use_thumb THEN <<>>
                     ELSE IF api_data.title.has THEN api_data.title.v ELSE <<>>
        tags == ApiTags(api_data.tag_list)
        collection_id == api_data.collection_id
        series_title == IF collection_id # 0 THEN fetch_series_title(page) ELSE None
        series_order == IF collection_id # 0 /\ api_data.id # 0
                        THEN calculate_series_order(listing, collection_id, api_data.id)
                        ELSE [has |-> FALSE, v |-> 0]
        kw == [title |-> title,
               slug |-> slugify(title),
               date |-> published.date,
               original_url |-> original_url,
               markdown_body |-> markdown_body,
               tags |-> IF tags # <<>> THEN tags ELSE extract_tags(entry),
               image_url |-> image_url,
               image_alt |-> image_alt,
               series_title |-> series_title,
               series_order |-> series_order]
    IN  IF ~published.ok THEN Raised("ValueError", "missing a publish date")
        ELSE IF ~TruthyUrl(DevtoUrl(entry)) THEN Raised("ValueError", "missing the original URL")
        ELSE IF ~Truthy(article_id) THEN Raised("ValueError", "could not extract article ID")
        ELSE IF ~api.ok THEN Raised("HTTPError", "article request failed")
        ELSE IF markdown_body = <<>> THEN Raised("ValueError", "no markdown content")
        ELSE Constructed(kw)

\* ------------------------------------------------------------ inputs
TitleMyPost == Some(<<"M", "y", " ", "P", "o", "s", "t">>)
TitleMy_Post == Some(<<"m", "y", "_", "p", "o", "s", "t">>)
TitleChess == Some(<<"C", "h", "e", "s", "s", "!">>)
DateUtc == [has |-> TRUE, v |-> DateStr(30, "utc")]
DatePlus2 == [has |-> TRUE, v |-> DateStr(50, "+2")]
DateNaive == [has |-> TRUE, v |-> DateStr(40, "none")]
MediumLink == Some(Url(<<"h", "t", "t", "p", "s">>, <<"m", "e", "d", "i", "u", "m", ".", "c", "o", "m">>, <<"/", "@", "y", "r", "i", "z", "o", "s", "/", "m", "y", "-", "p", "o", "s", "t", "-", "1", "a">>, <<"s", "o", "u", "r", "c", "e", "=", "r", "s", "s">>, <<>>))
BlogLink == Some(Url(<<"h", "t", "t", "p", "s">>, <<"y", "r", "i", "z", "o", "s", ".", "c", "o", "m">>, <<"/", "w", "r", "i", "t", "i", "n", "g", "/", "m", "y", "-", "p", "o", "s", "t", "/">>, <<>>, <<"t", "o", "p">>))
PngImage == Some(Url(<<"h", "t", "t", "p", "s">>, <<"x", ".", "c", "o", "m">>, <<"/", "i", "m", "g", ".", "p", "n", "g">>, <<"w", "=", "1", "0", "0">>, <<>>))
UpperImage == Some(Url(<<"h", "t", "t", "p", "s">>, <<"x", ".", "c", "o", "m">>, <<"/", "a", "/", "B", ".", "J", "P", "E", "G">>, <<>>, <<>>))
SvgImage == Some(Url(<<"h", "t", "t", "p", "s">>, <<"x", ".", "c", "o", "m">>, <<"/", "v", "1", ".", "2", "/", "l", "o", "g", "o", ".", "s", "v", "g">>, <<>>, <<>>))
TrackingPixel == Some(Url(<<"h", "t", "t", "p", "s">>, <<"M", "e", "d", "i", "u", "m", ".", "c", "o", "m">>, <<"/", "_", "/", "s", "t", "a", "t">>, <<"e", "v", "e", "n", "t", "=", "p", "o", "s", "t", ".", "c", "l", "i", "e", "n", "t", "V", "i", "e", "w", "e", "d">>, <<>>))
NoTags == <<>>
FeedTags == <<Some(<<"g", "o">>), Some(<<" ", "g", "o", " ">>), None, Some(<<" ">>), Some(<<"G", "o">>), Some(<<"p", "y">>)>>

\* Medium feed entries: complete ones, and one for each way an entry can fall short.
CompleteMediumEntries ==
    { Entry(TitleMyPost, DateUtc, NoDate, MediumLink, NoUrl,
            Some(<<Heading(1, <<"A">>), Para(<<"h", "i">>), Heading(3, <<"B">>)>>), None, FeedTags, NoUrl),
      Entry(TitleMy_Post, NoDate, DatePlus2, MediumLink, NoUrl,
            Some(<<Img(TrackingPixel, <<>>), Img(PngImage, <<"x">>), Para(<<"y", "o", " ">>), Img(SvgImage, <<>>)>>),
            None, NoTags, NoUrl),
      Entry(TitleChess, DateNaive, NoDate, NoUrl, NoUrl,
            None, Some(<<Para(<<"a">>), OrigPara(<<"O", "r", "i", "g", "i", "n", "a", "l", "l", "y", " ", "p", "u", "b", "l", "i", "s", "h", "e", "d", " ", "a", "t", " ", "y", " ", "o", "n", " ", "J", "a", "n", "u", "a", "r", "y", " ", "5", ",", " ", "2", "0", "2", "1">>, BlogLink, DateUtc)>>),
            NoTags, NoUrl),
      Entry(TitleChess, DateUtc, NoDate, MediumLink, NoUrl,
            Some(<<Img(UpperImage, <<>>), Para(<<"b">>)>>), None, NoTags, NoUrl),
      Entry(TitleChess, DateUtc, NoDate, MediumLink, NoUrl,
            Some(<<Img(SvgImage, <<>>), Para(<<"c">>)>>), None, NoTags, NoUrl) }
FaultyMediumEntries ==
    { \* no title
      Entry(None, DateUtc, NoDate, MediumLink, NoUrl, Some(<<Para(<<"h", "i">>)>>), None, NoTags, NoUrl),
      Entry(Some(<<>>), DateUtc, NoDate, MediumLink, NoUrl, Some(<<Para(<<"h", "i">>)>>), None, NoTags, NoUrl),
      \* no publish date
      Entry(TitleMyPost, NoDate, NoDate, MediumLink, NoUrl, Some(<<Para(<<"h", "i">>)>>), None, NoTags, NoUrl),
      \* no content and no summary
      Entry(TitleMyPost, DateUtc, NoDate, MediumLink, NoUrl, None, Some(<<>>), NoTags, NoUrl),
      \* no link and no original URL
      Entry(TitleMyPost, DateUtc, NoDate, NoUrl, NoUrl,
            Some(<<Para(<<"O", "r", "i", "g", "i", "n", "a", "l", "l", "y", " ", "p", "u", "b", "l", "i", "s", "h", "e", "d", " ", "a", "t", " ", "y">>), Para(<<"h", "i">>)>>), None, NoTags, NoUrl),
      \* content that is only an image, or only the original line, or only blanks
      Entry(TitleMyPost, DateUtc, NoDate, MediumLink, NoUrl,
            Some(<<Img(PngImage, <<"x">>), Img(TrackingPixel, <<>>)>>), None, NoTags, NoUrl),
      Entry(TitleMyPost, DateUtc, NoDate, MediumLink, NoUrl,
            Some(<<OrigPara(<<"o", "r", "i", "g", "i", "n", "a", "l", "l", "y", " ", "P", "U", "B", "L", "I", "S", "H", "E", "D", " ", "a", "t", " ", "y">>, BlogLink, NoDate)>>), None, NoTags, NoUrl),
      Entry(TitleMyPost, DateUtc, NoDate, MediumLink, NoUrl,
            Some(<<Para(<<" ", "\n">>)>>), None, NoTags, NoUrl) }
MediumEntries == CompleteMediumEntries \cup FaultyMediumEntries

DenySlug == CHOOSE s \in DEVTO_SKIP_SLUGS : TRUE
DevtoLink == Some(Url(<<"h", "t", "t", "p", "s">>, <<"d", "e", "v", ".", "t", "o">>, <<"/", "y", "r", "i", "z", "o", "s", "/", "c", "h", "e", "s", "s", "-", "1", "a">>, <<>>, <<>>))
DevtoLinkQuery == Some(Url(<<"h", "t", "t", "p", "s">>, <<"d", "e", "v", ".", "t", "o">>, <<"/", "y", "r", "i", "z", "o", "s", "/", "c", "h", "e", "s", "s", "-", "1", "a">>, <<"u", "t", "m", "=", "r", "s", "s">>, <<"c">>))
DenyLink == Some(Url(<<"h", "t", "t", "p", "s">>, <<"d", "e", "v", ".", "t", "o">>, <<"/", "y", "r", "i", "z", "o", "s", "/">> \o DenySlug, <<>>, <<>>))
DenyLinkTrailing == Some(Url(<<"h", "t", "t", "p", "s">>, <<"d", "e", "v", ".", "t", "o">>, <<"/", "y", "r", "i", "z", "o", "s", "/">> \o DenySlug \o <<"/", "c", "o", "m", "m", "e", "n", "t", "s">>, <<>>, <<>>))
UserLink == Some(Url(<<"h", "t", "t", "p", "s">>, <<"d", "e", "v", ".", "t", "o">>, <<"/", "y", "r", "i", "z", "o", "s">>, <<>>, <<>>))
RootLink == Some(Url(<<"h", "t", "t", "p", "s">>, <<"d", "e", "v", ".", "t", "o">>, <<>>, <<>>, <<>>))

DevtoEntries ==
    { Entry(TitleChess, DateUtc, NoDate, DevtoLink, NoUrl, None, None, FeedTags, NoUrl),
      Entry(TitleMyPost, NoDate, DatePlus2, DevtoLinkQuery, NoUrl, None, None, NoTags, PngImage),
      \* the deny-listed article: by link, with a trailing segment, by url only
      Entry(TitleChess, DateUtc, NoDate, DenyLink, NoUrl, None, None, NoTags, NoUrl),
      Entry(TitleChess, DateUtc, NoDate, DenyLinkTrailing, NoUrl, None, None, NoTags, NoUrl),
      Entry(TitleChess, DateUtc, NoDate, NoUrl, DenyLink, None, None, NoTags, NoUrl),
      \* no title, no date, no URL, no article id
      Entry(None, DateUtc, NoDate, DevtoLink, NoUrl, None, None, NoTags, NoUrl),
      Entry(TitleChess, NoDate, NoDate, DevtoLink, NoUrl, None, None, NoTags, NoUrl),
      Entry(TitleChess, DateUtc, NoDate, NoUrl, NoUrl, None, None, NoTags, NoUrl),
      Entry(TitleChess, DateUtc, NoDate, UserLink, NoUrl, None, None, NoTags, NoUrl),
      Entry(TitleChess, DateUtc, NoDate, RootLink, NoUrl, None, None, NoTags, NoUrl) }

\* What the Dev.to API can answer to the article call.
ArticleOutcomes ==
    { HttpError,
      HttpOk(Article(Some(<<"t", "e", "x", "t", " ">>), NoUrl, Some(<<"C", "h", "e", "s", "s">>), TagString(<<"g", "o", ",", " ", "g", "o", ",", ",", "p", "y", " ", ",", " ">>), 0, 11)),
      HttpOk(Article(Some(<<"t", "e", "x", "t">>), PngImage, None, TagList(<<Some(<<"g", "o">>), Some(<<" ">>), None, Some(<<"g", "o">>)>>), 7, 11)),
      HttpOk(Article(Some(<<"t", "e", "x", "t">>), NoUrl, Some(<<"C", "h", "e", "s", "s">>), TagList(<<>>), 7, 0)),
      HttpOk(Article(Some(<<"t", "e", "x", "t">>), NoUrl, Some(<<"C", "h", "e", "s", "s">>), TagOther, 7, 12)),
      HttpOk(Article(Some(<<" ", "\n">>), NoUrl, Some(<<"C", "h", "e", "s", "s">>), TagOther, 0, 11)),
      HttpOk(Article(None, NoUrl, Some(<<"C", "h", "e", "s", "s">>), TagOther, 0, 11)) }
\* What the series page call can give.
PageOutcomes == {None, Some(<<" ", "C", "h", "e", "s", "s", " ">>)}
\* What the article-listing call can give.
Listed(id, collection_id, published_at) ==
    [id |-> id, collection_id |-> collection_id, published_at |-> published_at]
ListingOutcomes ==
    { None,
      Some(<<Listed(12, 7, 5), Listed(13, 8, 1), Listed(11, 7, 2)>>),
      Some(<<Listed(13, 8, 1)>>) }

\* Answers the operator may type at one post's prompt, the last one a decision.
AnswerScripts ==
    { <<<<"y", "e", "s">>>>, <<<<" ", "Y", " ">>>>, <<<<"m", "a", "y", "b", "e">>, <<>>, <<"N", "o">>>>, <<<<"n">>>>, <<<<"E", "X", "I", "T">>>>, <<<<"e">>>> }
DownloadOutcomes == {"ok", "http_error"}
DiskOutcomes == {"ok", "os_error"}

\* ------------------------------------------------------------ state
VARIABLES
    phase,      \* "start", "fetching", "processing", "done", or "raised" (an exception left run)
    source,     \* the subcommand: "medium" or "devto"
    bozo,       \* feedparser's flag for a malformed feed document
    feed,       \* parsed.entries
    idx,        \* the fetch loop's position in feed
    posts,      \* the fetcher's posts list
    trace,      \* per entry handled: what the fetch loop did with it
    pidx,       \* process_posts' position in posts
    log,        \* per post handled: the decision and what was printed
    images,     \* IMAGES_DIR
    contents    \* POSTS_DIR
vars == <<phase, source, bozo, feed, idx, posts, trace, pidx, log, images, contents>>

Feeds(entries) == UNION {[1..n -> entries] : n \in 0..MaxFeed}

Init ==
    /\ phase = "start"
    /\ source \in {"medium", "devto"}
    /\ bozo \in BOOLEAN
    /\ feed \in Feeds(IF source = "medium" THEN MediumEntries ELSE DevtoEntries)
    /\ bozo => feed = <<>>
    /\ idx = 1
    /\ posts = <<>>
    /\ trace = <<>>
    /\ pidx = 1
    /\ log = <<>>
    /\ images = EmptyDir
    /\ contents = EmptyDir

\* What the loop did with one entry. outcome is "no_title" or "skipped" (both
\* printed as an error), "denied" (dropped in silence), "appended", or "raised"
\* (the exception left the fetcher). article, page and listing hold the outcomes
\* of the HTTP calls the entry got to.
Handled(outcome, result, article, page, listing) ==
    [outcome |-> outcome, exc |-> result.exc, msg |-> result.msg, call |-> result.call,
     article |-> article, page |-> page, listing |-> listing]
NoResult == [exc |-> "", msg |-> "", call |-> <<>>]
LoopOutcome(result) ==
    IF result.ok THEN "appended"
    ELSE IF result.exc = "ValueError" THEN "skipped"
    ELSE "raised"

\* feedparser.parse and the bozo check of fetch_medium_posts / fetch_devto_posts
ParseFeed ==
    /\ phase = "start"
    /\ phase' = IF bozo THEN "raised" ELSE "fetching"
    /\ UNCHANGED <<source, bozo, feed, idx, posts, trace, pidx, log, images, contents>>

\* One iteration of the loop of fetch_medium_posts
FetchMediumEntry ==
    /\ phase = "fetching" /\ source = "medium" /\ idx <= Len(feed)
    /\ LET entry == feed[idx]
           result == parse_medium_entry(entry)
       IN  IF ~Truthy(entry.title)
           THEN /\ trace' = Append(trace, Handled("no_title", NoResult, <<>>, <<>>, <<>>))
                /\ UNCHANGED <<posts, phase>>
           ELSE /\ trace' = Append(trace, Handled(LoopOutcome(result), result, <<>>, <<>>, <<>>))
                /\ posts' = posts \o result.post
                /\ phase' = IF LoopOutcome(result) = "raised" THEN "raised" ELSE phase
    /\ idx' = idx + 1
    /\ UNCHANGED <<source, bozo, feed, pidx, log, images, contents>>

\* One iteration of the loop of fetch_devto_posts
FetchDevtoEntry ==
    /\ phase = "fetching" /\ source = "devto" /\ idx <= Len(feed)
    /\ \E api \in ArticleOutcomes, page \in PageOutcomes, listing \in ListingOutcomes :
         LET entry == feed[idx]
             entry_slug == extract_devto_slug(entry)
             result == parse_devto_entry(entry, api, page, listing)
         IN  IF ~Truthy(entry.title)
             THEN /\ trace' = Append(trace, Handled("no_title", NoResult, <<>>, <<>>, <<>>))
                  /\ UNCHANGED <<posts, phase>>
             ELSE IF Truthy(entry_slug) /\ entry_slug.v \in DEVTO_SKIP_SLUGS
             THEN /\ trace' = Append(trace, Handled("denied", NoResult, <<>>, <<>>, <<>>))
                  /\ UNCHANGED <<posts, phase>>
             ELSE /\ trace' = Append(trace,
                        Handled(LoopOutcome(result), result,
                                IF ReachesArticle(entry) THEN <<api>> ELSE <<>>,
                                IF ReachesSeries(entry, api) THEN <<page>> ELSE <<>>,
                                IF ReachesListing(entry, api) THEN <<listing>> ELSE <<>>))
                  /\ posts' = posts \o result.post
                  /\ phase' = IF LoopOutcome(result) = "raised" THEN "raised" ELSE phase
    /\ idx' = idx + 1
    /\ UNCHANGED <<source, bozo, feed, pidx, log, images, contents>>

\* The fetcher returns to run: no posts ends the run, else process_posts starts.
FetchReturn ==
    /\ phase = "fetching" /\ idx > Len(feed)
    /\ phase' = IF posts = <<>> THEN "done" ELSE "processing"
    /\ UNCHANGED <<source, bozo, feed, idx, posts, trace, pidx, log, images, contents>>

\* The loop control with "exit" taken for a skip: no break.
AfterDecisionNoBreak(decision, last) ==
    IF last THEN "done" ELSE "processing"

\* The loop control of process_posts: "exit" breaks, anything else goes on to
\* the next post, if there is one.
AfterDecision(decision, last) ==
    IF decision = "exit" THEN "done"
    ELSE IF last THEN "done"
    ELSE "processing"

\* One iteration of the loop of process_posts: the prompt, then write_post.
ProcessPost ==
    /\ phase = "processing" /\ pidx <= Len(posts)
    /\ \E answers \in AnswerScripts, download \in DownloadOutcomes, disk \in DiskOutcomes :
         LET post == posts[pidx]
             decision == prompt_for_post(answers)
             written == write_post(post, images, contents, download, disk)
         IN  /\ phase' = AfterDecision(decision, pidx = Len(posts))
             /\ IF decision = "exit"
                THEN /\ log' = Append(log, [decision |-> decision, printed |-> "", exc |-> ""])
                     /\ UNCHANGED <<images, contents>>
                ELSE IF decision = "no"
                THEN /\ log' = Append(log, [decision |-> decision, printed |-> "Skipping", exc |-> ""])
                     /\ UNCHANGED <<images, contents>>
                ELSE /\ log' = Append(log, [decision |-> decision,
                                            printed |-> IF written.ok THEN "Saved" ELSE "Failed to save",
                                            exc |-> written.exc])
                     /\ images' = written.images
                     /\ contents' = written.contents
    /\ pidx' = pidx + 1
    /\ UNCHANGED <<source, bozo, feed, idx, posts, trace>>

Next ==
    \/ ParseFeed
    \/ FetchMediumEntry
    \/ FetchDevtoEntry
    \/ FetchReturn
    \/ ProcessPost

Spec == Init /\ [][Next]_vars

\* process_posts on its own, on every list of posts the Medium adapter makes of
\* the complete entries.
MediumPosts == {parse_medium_entry(e).post[1] : e \in CompleteMediumEntries}
InitProcess ==
    /\ phase = "processing"
    /\ source = "medium"
    /\ bozo = FALSE
    /\ feed = <<>>
    /\ idx = 1
    /\ posts \in UNION {[1..n -> MediumPosts] : n \in 1..MaxPosts}
    /\ trace = <<>>
    /\ pidx = 1
    /\ log = <<>>
    /\ images = EmptyDir
    /\ contents = EmptyDir
SpecProcess == InitProcess /\ [][ProcessPost]_vars

\* The Medium fetch of a one-entry feed, for the claims about what the adapter
\* makes of one entry's title or content.
FetchOneMedium(entry) ==
    /\ phase = "start"
    /\ source = "medium"
    /\ bozo = FALSE
    /\ feed = <<entry>>
    /\ idx = 1
    /\ posts = <<>>
    /\ trace = <<>>
    /\ pidx = 1
    /\ log = <<>>
    /\ images = EmptyDir
    /\ contents = EmptyDir
NextMedium ==
    \/ ParseFeed
    \/ FetchMediumEntry
    \/ FetchReturn

\* slugify on every title of up to MaxTitle characters: a letter in either
\* case, a digit, and each kind of separator and punctuation.
TitleChars == {"a", "B", "1", "_", "-", " ", "!"}
Titles == UNION {[1..n -> TitleChars] : n \in 1..MaxTitle}
InitSlug ==
    \E title \in Titles :
        FetchOneMedium(Entry(Some(title), DateUtc, NoDate, MediumLink, NoUrl,
                             Some(<<Para(<<"h", "i">>)>>), None, NoTags, NoUrl))
SpecSlug == InitSlug /\ [][NextMedium]_vars

\* normalize_headings on every document of up to MaxNodes nodes, each a
\* heading of a level in 1..6 or a paragraph.
HeadingNodes == {Heading(level, <<"T">>) : level \in 1..6} \cup {Para(<<"p">>)}
Documents == UNION {[1..n -> HeadingNodes] : n \in 1..MaxNodes}
InitHeadings ==
    \E document \in Documents :
        FetchOneMedium(Entry(TitleMyPost, DateUtc, NoDate, MediumLink, NoUrl,
                             Some(document), None, NoTags, NoUrl))
SpecHeadings == InitHeadings /\ [][NextMedium]_vars

\* ------------------------------------------------------------ properties
Last(seq) == seq[Len(seq)]
\* The step just taken handled one post in process_posts.
Handles == log' # log
\* A file's content, or nothing when the directory has no such file.
FileIn(dir, name) == IF name \in DOMAIN dir THEN <<dir[name]>> ELSE <<>>
ImageFileName(post) == determine_image_filename(post.slug, post.image_url.v)

\* The entry got to the article call and the call failed.
ArticleFailed(h) == h.article # <<>> /\ ~h.article[1].ok
\* C1: In fetch_devto_posts, an entry whose article call fails with a
\* transport/HTTP error is only skipped: the loop goes on with the next entry.
C1_TransportFailureSkipsEntry ==
    \A i \in 1..Len(trace) : ArticleFailed(trace[i]) => trace[i].outcome = "skipped"

\* C2: A write_post that fails leaves the post's files as they were: neither
\* its content file nor its image file is created or modified.
C2_FailedSaveLeavesNoFile ==
    [][(Handles /\ Last(log').printed = "Failed to save") =>
         /\ FileIn(contents', PostFileName(posts[pidx])) = FileIn(contents, PostFileName(posts[pidx]))
         /\ TruthyUrl(posts[pidx].image_url) =>
              FileIn(images', ImageFileName(posts[pidx])) = FileIn(images, ImageFileName(posts[pidx]))]_vars

\* Every file is the image or content file of an accepted post already handled.
FilesOfHandled ==
    /\ \A name \in DOMAIN images : \E k \in 1..Len(log) :
         log[k].decision = "yes" /\ TruthyUrl(posts[k].image_url) /\ name = ImageFileName(posts[k])
    /\ \A name \in DOMAIN contents : \E k \in 1..Len(log) :
         log[k].decision = "yes" /\ name = PostFileName(posts[k])
InOrder ==
    /\ Len(log) = pidx - 1
    /\ Len(log) <= Len(posts)
    /\ FilesOfHandled
    /\ \A k \in 1..Len(log) : log[k].decision = "exit" => k = Len(log) /\ phase = "done"
    /\ (log # <<>> /\ Last(log).decision = "no" /\ Len(log) < Len(posts)) => phase = "processing"
\* C3: process_posts handles the posts in list order, one prompt each; every
\* file on disk is that of an accepted post already handled; an "exit" ends the
\* loop, so that nothing is prompted or written after it; a "no" changes no file
\* and the loop goes on with the next post.
C3_ExitStopsNoSkipsOne ==
    /\ []InOrder
    /\ [][/\ (\E k \in 1..Len(log) : log[k].decision = "exit") =>
               UNCHANGED <<pidx, log, images, contents>>
          /\ (Handles /\ Last(log').decision = "no") =>
               UNCHANGED <<images, contents>>]_vars
C3_Witness ==
    /\ Len(posts) = 3 /\ Len(log) = 3 /\ phase = "done"
    /\ log[1].decision = "yes" /\ images # EmptyDir
    /\ log[2].decision = "no"
    /\ log[3].decision = "exit"

\* The entry got to a series call and the call failed.
PageFailed(h) == h.page # <<>> /\ ~h.page[1].has
ListingFailed(h) == h.listing # <<>> /\ ~h.listing[1].has
\* C4: A Dev.to entry that gets as far as series resolution gives a post
\* whatever the series calls do: when one fails nothing is raised or printed,
\* and the post is appended with that series field unset.
C4_SeriesFailureKeepsPost ==
    \A i \in 1..Len(trace) :
        (PageFailed(trace[i]) \/ ListingFailed(trace[i])) =>
            /\ trace[i].outcome = "appended"
            /\ PageFailed(trace[i]) => ~trace[i].call[1].series_title.has
            /\ ListingFailed(trace[i]) => ~trace[i].call[1].series_order.has

\* C5: For a post with an image URL whose download succeeds, write_post leaves
\* the image file <slug><ext> in the image directory and a content file
\* <slug>.md whose front matter has image = images/writing/<slug><ext>; the URL
\* https://x.com/img.png?w=100 with slug my-post gives my-post.png.
C5_ImageAndFrontMatter ==
    [][(/\ Handles
        /\ Last(log').decision = "yes"
        /\ TruthyUrl(posts[pidx].image_url)
        /\ Last(log').exc \notin {"HTTPError", "OSError"}) =>
         LET post == posts[pidx]
             name == ImageFileName(post)
         IN  /\ (post.slug = <<"m", "y", "-", "p", "o", "s", "t">> /\ post.image_url = PngImage) => name = <<"m", "y", "-", "p", "o", "s", "t", ".", "p", "n", "g">>
             /\ name \in DOMAIN images'
             /\ PostFileName(post) \in DOMAIN contents'
             /\ contents'[PostFileName(post)].front.image = Some(<<"i", "m", "a", "g", "e", "s", "/", "w", "r", "i", "t", "i", "n", "g", "/">> \o name)]_vars

\* The step just taken was a save whose image download failed.
DownloadFailed == Handles /\ Last(log').exc = "HTTPError"
\* C6: When the image download of an accepted post fails, the save is aborted
\* and printed as a failure, no file is written, and the loop goes on to the
\* next post with the directories as they were before the failed save.
C6_DownloadFailureAbortsOneSave ==
    [][DownloadFailed =>
         /\ Last(log').decision = "yes"
         /\ Last(log').printed = "Failed to save"
         /\ contents' = contents
         /\ images' = images
         /\ pidx' = pidx + 1
         /\ phase' = IF pidx = Len(posts) THEN "done" ELSE "processing"]_vars
C6_Witness ==
    \E k \in 1..(Len(log) - 1) :
        /\ log[k].exc = "HTTPError"
        /\ log[k + 1].decision = "yes"
        /\ log[k + 1].exc # "HTTPError"
        /\ TruthyUrl(posts[k + 1].image_url)
        /\ ImageFileName(posts[k + 1]) \in DOMAIN images
        /\ ImageFileName(posts[k]) \notin DOMAIN images

\* The article an entry names: the second path segment of its link or url.
ArticleSlug(url) == PathParts(url.path)[2]
ResolvesToDenied(entry) ==
    /\ TruthyUrl(DevtoUrl(entry))
    /\ Len(PathParts(DevtoUrl(entry).v.path)) >= 2
    /\ ArticleSlug(DevtoUrl(entry).v) \in DEVTO_SKIP_SLUGS
\* C7: No entry that resolves to a deny-listed article gets past the deny-list:
\* whatever the form of its link, it is dropped in silence, and no post for the
\* article is in the list.
C7_DeniedArticleNeverFetched ==
    source = "devto" =>
        /\ \A i \in 1..Len(trace) :
             (Truthy(feed[i].title) /\ ResolvesToDenied(feed[i])) => trace[i].outcome = "denied"
        /\ \A i \in 1..Len(posts) : ArticleSlug(posts[i].original_url) \notin DEVTO_SKIP_SLUGS

\* C8: Every post in the list a fetcher builds has a non-empty title, a URL and
\* a non-empty, trimmed markdown body.
C8_PostsAreValid ==
    \A i \in 1..Len(posts) :
        /\ posts[i].title # <<>>
        /\ UrlString(posts[i].original_url) # <<>>
        /\ posts[i].markdown_body # <<>>
        /\ Strip(posts[i].markdown_body) = posts[i].markdown_body

\* Entry i has what per-entry validation asks for.
HasContent(i) ==
    IF source = "medium" THEN Truthy(feed[i].content) \/ Truthy(feed[i].summary)
    ELSE trace[i].article # <<>> /\ trace[i].article[1].ok /\ BodyOf(trace[i].article[1].data) # <<>>
HasUrl(i) ==
    IF source = "medium"
    THEN TruthyUrl(feed[i].link) \/ TruthyUrl(extract_original_metadata(
             IF Truthy(feed[i].content) THEN feed[i].content.v ELSE feed[i].summary.v).url)
    ELSE TruthyUrl(DevtoUrl(feed[i])) /\ Len(PathParts(DevtoUrl(feed[i]).v.path)) >= 2
PassesValidation(i) ==
    /\ Truthy(feed[i].title)
    /\ feed[i].published.has \/ feed[i].updated.has
    /\ HasUrl(i)
    /\ HasContent(i)
RECURSIVE TitlesOfValid(_)
TitlesOfValid(n) ==
    IF n = 0 THEN <<>>
    ELSE TitlesOfValid(n - 1) \o
         (IF PassesValidation(n) /\ trace[n].outcome # "denied" THEN <<feed[n].title.v>> ELSE <<>>)
FetchOver == phase \in {"raised", "processing", "done"} /\ ~bozo
\* C9: A feed with an entry that fails validation (no title, no date, no URL,
\* no content, no article id) is still fetched to the end: the fetcher returns
\* the posts of the other entries, in feed order.
C9_InvalidEntriesSkipped ==
    (/\ FetchOver
     /\ \E i \in 1..Len(trace) : ~PassesValidation(i)
     /\ \A i \in 1..Len(trace) : ~ArticleFailed(trace[i])) =>
        /\ phase # "raised"
        /\ Len(trace) = Len(feed)
        /\ [i \in 1..Len(posts) |-> posts[i].title] = TitlesOfValid(Len(feed))

\* No empty string and no repeat.
DistinctNonEmpty(tags) ==
    /\ \A i \in 1..Len(tags) : tags[i] # <<>>
    /\ \A i, j \in 1..Len(tags) : tags[i] = tags[j] => i = j
\* C10: The tags handed to every post record are distinct, non-empty strings,
\* whether they come from the feed entry's tag terms or from the API payload's
\* tag_list.
C10_TagsDistinctNonEmpty ==
    /\ \A i \in 1..Len(trace) : trace[i].call # <<>> => DistinctNonEmpty(trace[i].call[1].tags)
    /\ \A i \in 1..Len(posts) : DistinctNonEmpty(posts[i].tags)

\* A slug of lowercase word characters and single hyphens, with no hyphen at
\* either end.
SlugChars == ((Range(LowerChars) \cup Range(DigitChars)) \cup {"_"}) \cup {"-"}
WellFormedSlug(slug) ==
    /\ slug # <<>>
    /\ \A i \in 1..Len(slug) : slug[i] \in SlugChars
    /\ \A i \in 1..(Len(slug) - 1) : ~(slug[i] = "-" /\ slug[i + 1] = "-")
    /\ slug[1] # "-"
    /\ slug[Len(slug)] # "-"
HasWordChar(title) == \E i \in 1..Len(title) : IsWord(title[i])
\* C11: The slug of every post is made of lowercase word characters and single
\* hyphens, neither starts nor ends with a hyphen, and is "post" when the title
\* has no word character.
C11_SlugWellFormed ==
    \A i \in 1..Len(posts) :
        /\ WellFormedSlug(posts[i].slug)
        /\ ~HasWordChar(posts[i].title) => posts[i].slug = <<"p", "o", "s", "t">>

\* The heading levels of a document, in document order.
RECURSIVE LevelsOf(_)
LevelsOf(soup) ==
    IF soup = <<>> THEN <<>>
    ELSE (IF Head(soup).tag = "h" THEN <<Head(soup).level>> ELSE <<>>) \o LevelsOf(Tail(soup))
\* The heading levels of a markdown body, in order: the number of # each
\* heading line starts with.
RECURSIVE LeadingHashes(_)
LeadingHashes(line) ==
    IF line # <<>> /\ Head(line) = "#" THEN 1 + LeadingHashes(Tail(line)) ELSE 0
RECURSIVE HashCounts(_)
HashCounts(lines) ==
    IF lines = <<>> THEN <<>>
    ELSE (IF LeadingHashes(Head(lines)) > 0 THEN <<LeadingHashes(Head(lines))>> ELSE <<>>)
         \o HashCounts(Tail(lines))
MarkdownLevels(body) == HashCounts(Split(body, "\n"))
LevelsBefore == LevelsOf(feed[1].content.v)
LevelsAfter == MarkdownLevels(posts[1].markdown_body)
\* C12: In the body made of a document with headings of levels 1..6, the
\* lowest heading level is 2, none is above 6, and two headings keep their
\* order of levels; a document without headings comes out as it went in.
C12_HeadingsRenormalized ==
    posts # <<>> =>
        /\ Len(LevelsAfter) = Len(LevelsBefore)
        /\ LevelsBefore # <<>> =>
             /\ Min(Range(LevelsAfter)) = 2
             /\ \A i \in 1..Len(LevelsAfter) : LevelsAfter[i] <= 6
             /\ \A i, j \in 1..Len(LevelsBefore) :
                  LevelsBefore[i] <= LevelsBefore[j] => LevelsAfter[i] <= LevelsAfter[j]
        /\ LevelsBefore = <<>> =>
             posts[1].markdown_body = Strip(html_to_markdown(feed[1].content.v))
C12_Witness ==
    /\ posts # <<>>
    /\ LevelsBefore = <<5, 3, 6>>
    /\ LevelsAfter = <<4, 2, 5>>

====
